---- MODULE Spec2Model ----
(***************************************************************************)
(* jlr2mqtt: the command dispatcher (do_command), the connection manager   *)
(* (get_jlr_connection), the status fetch (get_status) and the refresh     *)
(* timer, as a state machine.  Two kinds of thread exist in the program:   *)
(* the paho-mqtt loop thread, which runs mqtt_on_message and do_command,   *)
(* and one thread per threading.Timer armed by do_command, which runs      *)
(* get_status(vehicle_idx).  A thread's steps are cut at the blocking      *)
(* calls into the remote API.                                              *)
(***************************************************************************)
EXTENDS Integers, Sequences, FiniteSets, TLC

\* ---- bounds of the model ------------------------------------------------
MaxTime     == 1    \* the clock (now_ts) runs over 0..MaxTime
MaxVehicles == 2    \* an account holds 1..MaxVehicles vehicles
MaxTimers   == 2    \* Timer objects that can be alive at the same time
MaxRunning  == 1    \* timer threads that can be inside get_status at the same time
MaxSensors  == 2    \* sensors of a status tree

\* ---- program constants ----------------------------------------------------
DEFAULT_COMMAND_STATUS_REFRESH_DELAY == 60
DEPARTURE_TIMER_SLOTS == 10

VARIABLES
    MULTI_VEHICLE_SUPPORT,      \* configuration, fixed at start-up
    HOMEASSISTANT_DISCOVERY,    \* configuration, fixed at start-up
    MASTER_PIN,                 \* configuration: TRUE iff a PIN is configured
    vehicles,                   \* number of vehicles the remote account holds
    now,                        \* datetime.now().timestamp()
    jlr_connection,             \* the cached Session or None
    status_refresh_timer,       \* the Timer last armed: 0 is None, else its id
    timers,                     \* the Timer objects: state and argument
    ha_discovery_initalised,
    last_command_service_id,    \* "" is None
    availability,               \* payload last published on <pub>/state
    mpc,                        \* position of the message-handling thread
    json_data,                  \* the command the message thread works on
    vehicle_idx,                \* do_command's effective vehicle index
    pubs,                       \* what the current handler published so far
    calls,                      \* remote operations the current handler invoked
    branch,                     \* the path the current do_command took
    timer_op,                   \* what the current do_command did to the timer
    DISCOVERY_SENSORS_LIST,     \* configuration: the sensors to announce
    tree_type,                \* the tree walked: status, alerts or location
    sensors_dict,               \* the tree: a sequence of sensors
    tpc,                        \* position of the walk over the tree
    sensor_i,                   \* the sensor the walk is at
    mqtt,                       \* the publish calls the walk made
    departure_timers,           \* what get_departure_timers returned: << >> is None or []
    first_named                 \* what the namer returned at the start, by input

vars == << MULTI_VEHICLE_SUPPORT, HOMEASSISTANT_DISCOVERY, MASTER_PIN, vehicles,
           now, jlr_connection, status_refresh_timer, timers,
           ha_discovery_initalised, last_command_service_id, availability,
           mpc, json_data, vehicle_idx, pubs, calls, branch, timer_op,
           DISCOVERY_SENSORS_LIST, tree_type, sensors_dict, tpc, sensor_i, mqtt,
           departure_timers, first_named >>

\* the walk over a status tree
tree == << DISCOVERY_SENSORS_LIST, tree_type, sensors_dict, tpc, sensor_i, mqtt,
           departure_timers >>

config == << MULTI_VEHICLE_SUPPORT, HOMEASSISTANT_DISCOVERY, MASTER_PIN, vehicles >>

TimerIds == 1..MaxTimers

\* ---- the Session ------------------------------------------------------------
None == [set |-> FALSE, expiration |-> 0, vehicle_count |-> 0]

\* jlrpy.Connection(...) followed by vehicle_count = len(vehicles)
Connection(exp, n) == [set |-> TRUE, expiration |-> exp, vehicle_count |-> n]

\* What jlrpy.Connection(JLR_USER, JLR_PW, JLR_DEVICE_ID) can do at time t:
\* raise, or return a Session that expires at some e >= t.
Attempts(t) == {[ok |-> FALSE, expiration |-> 0]}
                 \cup {[ok |-> TRUE, expiration |-> e] : e \in t..MaxTime}

\* ---- command results --------------------------------------------------------
\* A result is None or a dict; status and customerServiceId may be missing.
\* customerServiceId = "" stands for missing or falsy.
Result(st) == [none |-> FALSE, has_status |-> TRUE, status |-> st,
               customerServiceId |-> ""]
ResultNone == [none |-> TRUE, has_status |-> FALSE, status |-> "",
               customerServiceId |-> ""]

StConnUnavailable == "Error: command failed as connection to JLR is unavailable"
StInvalidIndex    == "Error: command failed as vehicle index is invalid"
StNoLevel         == "Error: Log level not key 'level' not found"
StParamsMismatch  == "Error: Parameter(s) missing. Given param(s); Required"
StKwargsMissing   == "Error: 'kwargs' dict with function parameters missing in json"
StRaised          == "Error: exception"
StGetStatusError  == "Error"

ErrorStatuses == {StConnUnavailable, StInvalidIndex, StNoLevel, StParamsMismatch,
                  StKwargsMissing, StRaised, StGetStatusError, "Error: remote"}

\* "Error" in ret["status"]
ContainsError(st) == st \in ErrorStatuses

\* What a remote operation of the Vehicle can return; "raise" is separate.
RemoteResults ==
    { ResultNone,
      [none |-> FALSE, has_status |-> TRUE, status |-> "Started", customerServiceId |-> "sid"],
      [none |-> FALSE, has_status |-> TRUE, status |-> "Error: remote", customerServiceId |-> ""],
      [none |-> FALSE, has_status |-> FALSE, status |-> "", customerServiceId |-> ""] }

\* ---- the Vehicle's operations (jlrpy), by declared parameter names -----------
InternalCommands == {"set_log_level", "init_ha_discovery", "get_status",
                     "refresh_last_command_status"}

\* inspect.signature(command_func).parameters.keys() for the operations used here
func_params_of(command) ==
    CASE command = "honk_blink"          -> {}
      [] command = "lock"                -> {"pin"}
      [] command = "get_service_status"  -> {"service_id"}
      [] command = "remote_engine_start" -> {"pin", "target_value"}
      [] OTHER                           -> {}

RemoteOperations == {"honk_blink", "lock", "get_service_status", "remote_engine_start"}

\* ---- publications -------------------------------------------------------------
update_state_on_mqtt(state) ==
    << <<"state", state>>, <<"config", "version">>, <<"system_state_updated", "ts">> >>

AvailabilityOfOnline(conn) == "online"

AvailabilityOf(conn) == IF conn.set THEN "online" ELSE "offline"

update_ha_availablity(conn) == update_state_on_mqtt(AvailabilityOf(conn))

\* "{}".format(response)
ResponseText(response) ==
    IF response.none THEN "None"
    ELSE IF response.has_status THEN response.status ELSE "{}"

publish_command_response(response, conn) ==
    << <<"send_command_response", ResponseText(response)>>,
       <<"send_command_response_ts", "ts">>,
       <<"send_command_service_id",
         IF ~response.none /\ response.customerServiceId # ""
         THEN response.customerServiceId ELSE "">> >>
    \o update_ha_availablity(conn)

Placeholder == Result("")

\* ---- get_jlr_connection (lines 316-340) -----------------------------------------
\* conn: the cached Session, t: now_ts, attempt: what jlrpy.Connection would do.
\* raised: the constructor's exception leaves the function.
get_jlr_connection(conn, t, attempt, n) ==
    IF conn.set
    THEN LET c == IF t > conn.expiration THEN None ELSE conn
         IN  [jlr_connection |-> c, raised |-> FALSE, constructed |-> FALSE,
              published |-> update_ha_availablity(c)]
    ELSE IF attempt.ok
         THEN LET c == Connection(attempt.expiration, n)
              IN  [jlr_connection |-> c, raised |-> FALSE, constructed |-> TRUE,
                   published |-> update_ha_availablity(c)]
         ELSE [jlr_connection |-> None, raised |-> TRUE, constructed |-> FALSE,
               published |-> << >>]

\* ---- vehicle index resolution (lines 523-536) -------------------------------------
ResolveIndexNoLowerBound(multi, json, conn) ==
    IF multi
    THEN IF conn.vehicle_count = 1
         THEN [ok |-> TRUE, idx |-> 0]
         ELSE IF ~json.has_index \/ json.vehicle_index > conn.vehicle_count - 1
              THEN [ok |-> FALSE, idx |-> json.vehicle_index]
              ELSE [ok |-> TRUE, idx |-> json.vehicle_index]
    ELSE [ok |-> TRUE, idx |-> 0]

ResolveIndex(multi, json, conn) ==
    IF multi
    THEN IF conn.vehicle_count = 1
         THEN [ok |-> TRUE, idx |-> 0]
         ELSE IF ~json.has_index \/ json.vehicle_index < 0
                    \/ json.vehicle_index > conn.vehicle_count - 1
              THEN [ok |-> FALSE, idx |-> json.vehicle_index]
              ELSE [ok |-> TRUE, idx |-> json.vehicle_index]
    ELSE [ok |-> TRUE, idx |-> 0]

\* jlr_connection.vehicles[i]: a Python list index, negative ones count from the end
IndexInList(i, n) == -n <= i /\ i < n

\* ---- parameter validation of a dynamic operation (lines 574-594) ------------------
\* given_params == func_params on the two sorted lists of names
ParamsEqualSubset(given_params, func_params) == given_params \subseteq func_params

ParamsEqual(given_params, func_params) == given_params = func_params

\* outcome: "raise" (an exception other than the validation's own), "mismatch",
\* "missing", or "ok" with the kwargs the operation is then called with.
ValidateParams(command, json, pin) ==
    LET func_params == func_params_of(command)
        inject      == "pin" \in func_params /\ pin /\ "pin" \notin json.kwargs
        kwargs      == IF inject THEN json.kwargs \cup {"pin"} ELSE json.kwargs
    IN  IF inject /\ ~json.kwargs_is_dict
        THEN [outcome |-> "raise", kwargs |-> json.kwargs]   \* kwargs["pin"] = ... on a list
        ELSE IF func_params # {} /\ kwargs # {} /\ json.kwargs_is_dict
             THEN [outcome |-> IF ParamsEqual(kwargs, func_params) THEN "ok" ELSE "mismatch",
                   kwargs |-> kwargs]
             ELSE IF func_params # {} /\ kwargs = {}
                  THEN [outcome |-> "missing", kwargs |-> kwargs]
                  ELSE [outcome |-> "ok", kwargs |-> kwargs]

BindsIgnoringExtra(command, is_dict, kwargs) ==
    is_dict /\ func_params_of(command) \subseteq kwargs

\* command_func(**kwargs): Python binds the keyword arguments before the operation
\* runs; anything but a mapping with exactly the declared names is a TypeError.
Binds(command, is_dict, kwargs) == is_dict /\ kwargs = func_params_of(command)

\* lines 597-601: the operation's answer, or the error result built from its exception
InvocationResultUnmarked(r, raised) == IF raised THEN Result("exception") ELSE r

InvocationResult(r, raised) == IF raised THEN Result(StRaised) ELSE r

\* line 605: the value assigned to last_command_service_id ("" is None)
CachedServiceIdKeepingLast(ret) ==
    IF ~ret.none /\ ret.customerServiceId # "" THEN ret.customerServiceId
    ELSE last_command_service_id

CachedServiceId(ret) ==
    IF ~ret.none /\ ret.customerServiceId # "" THEN ret.customerServiceId ELSE ""

\* ---- the refresh timer (lines 607-617) ---------------------------------------------
DeadTimer == [state |-> "dead", idx |-> 0]

is_alive(timer) == timer.state # "dead"

\* Timer.cancel(): stops a timer that has not fired yet, no effect on a running one
cancel(timer) == IF timer.state = "pending" THEN DeadTimer ELSE timer

ShouldArmIgnoringResult(command, ret, status_refresh_delay) ==
    status_refresh_delay > 0 /\ command # "get_service_status"

ShouldArmAlsoServiceStatus(command, ret, status_refresh_delay) ==
    /\ ~ret.none /\ ret.has_status /\ ~ContainsError(ret.status)
    /\ status_refresh_delay > 0

ShouldArm(command, ret, status_refresh_delay) ==
    /\ ~ret.none /\ ret.has_status /\ ~ContainsError(ret.status)
    /\ status_refresh_delay > 0 /\ command # "get_service_status"

CancelPrevious(ref, tms) ==
    IF ref # 0 /\ is_alive(tms[ref]) THEN [tms EXCEPT ![ref] = cancel(@)] ELSE tms

FreeSlots(tms) == {i \in TimerIds : tms[i].state = "dead"}

FirstFree(tms) == CHOOSE i \in FreeSlots(tms) : \A j \in FreeSlots(tms) : i <= j

ArmTimerNoCancel(ref, tms, idx) ==
    LET slot == IF FreeSlots(tms) = {} THEN ref ELSE FirstFree(tms)
    IN  [timers |-> [tms EXCEPT ![slot] = [state |-> "pending", idx |-> idx]],
         status_refresh_timer |-> slot,
         cancelled |-> FALSE]

\* cancel the previous timer if alive, then Timer(delay, get_status, [idx]).start()
ArmTimer(ref, tms, idx) ==
    LET after == CancelPrevious(ref, tms)
        slot  == FirstFree(after)
    IN  [timers |-> [after EXCEPT ![slot] = [state |-> "pending", idx |-> idx]],
         status_refresh_timer |-> slot,
         cancelled |-> after # tms]

\* a Timer object is available for the arming (bound of the model)
CanArm(ref, tms) == FreeSlots(CancelPrevious(ref, tms)) # {}

\* ---- get_status (lines 448-511) ------------------------------------------------------
Completed == Result("Completed")
GetStatusError == Result(StGetStatusError)

\* lines 449-451: "go" when the fetch can start, otherwise the error path
GetStatusBegin(conn, idx) ==
    IF ~conn.set THEN "no_connection"
    ELSE IF ~IndexInList(idx, conn.vehicle_count) THEN "exception"
    ELSE "go"

\* What the remote API does during one full fetch.
FetchOutcomes ==
    {[status |-> "raise", position |-> "absent", geocode |-> "ok", timers |-> "ok"]}
    \cup {[status |-> "ok", position |-> "absent", geocode |-> "ok", timers |-> tm]
            : tm \in {"ok", "raise"}}
    \cup {[status |-> "ok", position |-> "latlong", geocode |-> g, timers |-> "ok"]
            : g \in {"ok", "no_address", "raise"}}

publish_status_dict(subtopic, conn) ==
    << <<subtopic, "data">>, <<"last_update_ts", "ts">> >> \o update_ha_availablity(conn)

publish_position(conn) == update_ha_availablity(conn) \o << <<"position", "data">> >>

publish_departure_timers(conn) ==
    update_ha_availablity(conn) \o << <<"departure_timers", "data">> >>

\* lines 456-477 once v.get_status() has answered; conn is the global jlr_connection
\* as read by the publishers and by get_and_publish_reverse_geocode.
FullFetch(o, conn) ==
    IF o.status = "raise"
    THEN [raised |-> TRUE, published |-> << >>, remote |-> <<"get_status">>]
    ELSE
    LET p1 == publish_status_dict("status", conn) \o publish_status_dict("alerts", conn)
        c1 == <<"get_status", "get_position">>
    IN  IF o.position = "latlong" /\ ~conn.set
        THEN [raised |-> TRUE, published |-> p1 \o publish_position(conn), remote |-> c1]
        ELSE
        LET p2 == IF o.position = "latlong"
                  THEN p1 \o publish_position(conn)
                          \o (IF o.geocode = "ok"
                              THEN << <<"position/formatted_address", "data">>,
                                      <<"position/address", "data">> >>
                              ELSE << >>)
                  ELSE p1
            c2 == IF o.position = "latlong" THEN c1 \o <<"reverse_geocode">> ELSE c1
        IN  IF o.position = "latlong" /\ o.geocode = "raise"
            THEN [raised |-> TRUE, published |-> p2, remote |-> c2]
            ELSE IF o.timers = "raise"
                 THEN [raised |-> TRUE, published |-> p2,
                       remote |-> c2 \o <<"get_departure_timers">>]
                 ELSE [raised |-> FALSE,
                       published |-> p2 \o publish_departure_timers(conn),
                       remote |-> c2 \o <<"get_departure_timers">>]

\* line 479
DiscoveryDueIgnoringFlag(discovery, initalised) == discovery

DiscoveryDue(discovery, initalised) == discovery /\ ~initalised

\* the payload last published on <pub>/state by a sequence of publications
LastState(published, before) ==
    LET S == {i \in 1..Len(published) : published[i][1] = "state"}
    IN  IF S = {} THEN before
        ELSE published[CHOOSE i \in S : \A j \in S : j <= i][2]

\* ---- inbound messages ------------------------------------------------------------------
Msg(c, hi, vi, k, l, d, kw) ==
    [has_command |-> TRUE, command |-> c, has_index |-> hi, vehicle_index |-> vi,
     has_key |-> k, level |-> l, kwargs_is_dict |-> d, kwargs |-> kw, nested |-> FALSE]

NullMsg ==
    [has_command |-> FALSE, command |-> "", has_index |-> FALSE, vehicle_index |-> 0,
     has_key |-> FALSE, level |-> "absent", kwargs_is_dict |-> TRUE, kwargs |-> {},
     nested |-> FALSE]

\* vehicle_index: absent, below the range, in the range, above the range
IndexChoices == {<<FALSE, 0>>} \cup {<<TRUE, i>> : i \in -1..MaxVehicles}

\* the commands tried with every choice of vehicle_index
IndexProbes ==
    {Msg(c, ix[1], ix[2], FALSE, "absent", TRUE, {})
        : ix \in IndexChoices,
          c \in {"get_status", "honk_blink", "refresh_last_command_status"}}

\* the kwargs tried with each dynamic command: <<is a dict, names>>
KwargsChoices(c) ==
    CASE c = "honk_blink"          -> {<<TRUE, {}>>, <<TRUE, {"pin"}>>}
      [] c = "lock"                -> {<<TRUE, {}>>, <<TRUE, {"pin"}>>, <<TRUE, {"service_id"}>>,
                                       <<TRUE, {"pin", "service_id"}>>, <<FALSE, {"pin"}>>}
      [] c = "get_service_status"  -> {<<TRUE, {}>>, <<TRUE, {"service_id"}>>}
      [] c = "remote_engine_start" -> {<<TRUE, {}>>, <<TRUE, {"target_value"}>>,
                                       <<TRUE, {"pin", "target_value"}>>}
      [] OTHER                     -> {<<TRUE, {}>>}

DynamicCommands == RemoteOperations \cup {"no_such_operation"}

\* the inbound messages: every command, with every choice of its own fields, for
\* vehicle 0, and the index probes
Messages ==
    {NullMsg} \cup IndexProbes
    \cup {Msg("set_log_level", TRUE, 0, FALSE, l, TRUE, {})
            : l \in {"absent", "valid", "invalid"}}
    \cup {Msg("init_ha_discovery", TRUE, 0, FALSE, "absent", TRUE, {})}
    \cup {Msg("get_status", TRUE, 0, TRUE, "absent", TRUE, {})}
    \cup UNION {{Msg(c, TRUE, 0, FALSE, "absent", kw[1], kw[2]) : kw \in KwargsChoices(c)}
                   : c \in DynamicCommands}

\* line 567: the synthetic command of refresh_last_command_status
ServiceStatusCommand(idx) ==
    [Msg("get_service_status", TRUE, idx, FALSE, "absent", TRUE, {"service_id"})
        EXCEPT !.nested = TRUE]

\* ---- do_command, from its entry to its first blocking call (lines 514-601) -----------
Outcome(conn, initalised, published, next, ret, idx, br, delay) ==
    [jlr_connection |-> conn, initalised |-> initalised, published |-> published,
     next |-> next, ret |-> ret, vehicle_idx |-> idx, branch |-> br, delay |-> delay]

Dispatch(json, conn, initalised, last_id, pin, idx, published) ==
    LET command == json.command
        D       == DEFAULT_COMMAND_STATUS_REFRESH_DELAY
    IN
    CASE command = "set_log_level" ->
           IF json.level = "absent"
           THEN Outcome(conn, initalised, published, "finish", Result(StNoLevel), idx,
                        "set_log_level", -1)
           ELSE IF json.level = "valid"
           THEN Outcome(conn, initalised, published, "finish", Completed, idx,
                        "set_log_level", -1)
           ELSE Outcome(conn, initalised, published, "return", ResultNone, idx,
                        "exception", D)
      [] command = "init_ha_discovery" ->
           Outcome(conn, FALSE, published, "gs_fetch", ResultNone, idx,
                   "init_ha_discovery", -1)
      [] command = "get_status" ->
           Outcome(conn, initalised, published,
                   IF json.has_key THEN "gs_key" ELSE "gs_fetch", ResultNone, idx,
                   "get_status", -1)
      [] command = "refresh_last_command_status" ->
           IF last_id # ""
           THEN Outcome(conn, initalised, published, "recurse", ResultNone, idx,
                        "refresh_last_command_status", -1)
           ELSE Outcome(conn, initalised, published, "finish", ResultNone, idx,
                        "refresh_last_command_status", D)
      [] OTHER ->
           IF command \notin RemoteOperations
           THEN Outcome(conn, initalised, published, "finish", Result(StRaised), idx,
                        "dynamic", D)
           ELSE
           LET val == ValidateParams(command, json, pin)
           IN  IF val.outcome = "mismatch"
               THEN Outcome(conn, initalised, published, "finish",
                            Result(StParamsMismatch), idx, "dynamic", D)
               ELSE IF val.outcome = "missing"
               THEN Outcome(conn, initalised, published, "finish",
                            Result(StKwargsMissing), idx, "dynamic", D)
               ELSE IF val.outcome = "raise"
                       \/ ~Binds(command, json.kwargs_is_dict, val.kwargs)
               THEN Outcome(conn, initalised, published, "finish", Result(StRaised),
                            idx, "dynamic", D)
               ELSE Outcome(conn, initalised, published, "invoke", ResultNone, idx,
                            "dynamic", D)

do_command_begin(json, conn0, initalised, last_id, multi, pin, t, attempt, n) ==
    LET p0 == publish_command_response(Placeholder, conn0)
        g  == get_jlr_connection(conn0, t, attempt, n)
        D  == DEFAULT_COMMAND_STATUS_REFRESH_DELAY
    IN  IF g.raised
        THEN Outcome(g.jlr_connection, initalised, p0, "return", ResultNone, 0,
                     "connect_failed", D)
        ELSE IF ~g.jlr_connection.set
        \* line 621 reads the local 'command', bound only at line 522:
        \* UnboundLocalError, caught and logged at line 623
        THEN Outcome(g.jlr_connection, initalised, p0 \o g.published, "return",
                     ResultNone, 0, "no_connection", D)
        ELSE
        LET r == ResolveIndex(multi, json, g.jlr_connection)
        IN  IF ~r.ok
            THEN Outcome(g.jlr_connection, initalised,
                         p0 \o g.published
                            \o publish_command_response(Result(StInvalidIndex),
                                                        g.jlr_connection),
                         "return", ResultNone, 0, "invalid_index", D)
            ELSE Dispatch(json, g.jlr_connection, initalised, last_id, pin, r.idx,
                          p0 \o g.published)

\* ---- do_command, from the result to its end (lines 603-619) ---------------------------
FinishCancelling(command, idx, ret, delay, conn, ref, tms) ==
    LET arm == ShouldArm(command, ret, delay)
        a   == ArmTimer(ref, tms, idx)
    IN  [published |-> publish_command_response(ret, conn),
         last_command_service_id |-> CachedServiceId(ret),
         timers |-> IF arm THEN a.timers ELSE CancelPrevious(ref, tms),
         status_refresh_timer |-> IF arm THEN a.status_refresh_timer ELSE 0,
         timer_op |-> IF arm THEN (IF a.cancelled THEN "rearmed" ELSE "armed") ELSE "none"]

Finish(command, idx, ret, delay, conn, ref, tms) ==
    LET arm == ShouldArm(command, ret, delay)
        a   == ArmTimer(ref, tms, idx)
    IN  [published |-> publish_command_response(ret, conn),
         last_command_service_id |-> CachedServiceId(ret),
         timers |-> IF arm THEN a.timers ELSE tms,
         status_refresh_timer |-> IF arm THEN a.status_refresh_timer ELSE ref,
         timer_op |-> IF arm THEN (IF a.cancelled THEN "rearmed" ELSE "armed") ELSE "none"]

FinishEnabled(command, ret, delay, ref, tms) ==
    ShouldArm(command, ret, delay) => CanArm(ref, tms)

\* ---- text: a str is the sequence of its characters ------------------------------------
LowerLetters == <<"a", "b", "c", "d", "e", "f", "g", "h", "i", "j", "k", "l", "m", "n", "o", "p", "q", "r", "s", "t", "u", "v", "w", "x", "y", "z">>
UpperLetters == <<"A", "B", "C", "D", "E", "F", "G", "H", "I", "J", "K", "L", "M", "N", "O", "P", "Q", "R", "S", "T", "U", "V", "W", "X", "Y", "Z">>
Letters == {LowerLetters[i] : i \in 1..26} \cup {UpperLetters[i] : i \in 1..26}

\* str.lower() and str.upper() on one character
LowerOf(c) ==
    IF \E i \in 1..26 : UpperLetters[i] = c
    THEN LowerLetters[CHOOSE i \in 1..26 : UpperLetters[i] = c] ELSE c
UpperOf(c) ==
    IF \E i \in 1..26 : LowerLetters[i] = c
    THEN UpperLetters[CHOOSE i \in 1..26 : LowerLetters[i] = c] ELSE c

\* the characters of the model's texts, and the two conversions as tables
Characters ==
    Letters \cup {"0", "1", "2", "3", "4", "5", "6", "7", "8", "9",
                  "_", " ", "/", ":", "-", ",", "<number>"}
LowerTable == [c \in Characters |-> LowerOf(c)]
UpperTable == [c \in Characters |-> UpperOf(c)]
IsLetter   == [c \in Characters |-> c \in Letters]

lower(s) == [i \in 1..Len(s) |-> LowerTable[s[i]]]
upper(s) == [i \in 1..Len(s) |-> UpperTable[s[i]]]

\* str.title(): a letter is upper-cased unless a letter precedes it
title(s) ==
    [i \in 1..Len(s) |->
        IF i > 1 /\ IsLetter[s[i - 1]] THEN LowerTable[s[i]] ELSE UpperTable[s[i]]]

\* str.capitalize()
capitalize(s) == [i \in 1..Len(s) |-> IF i = 1 THEN UpperTable[s[i]] ELSE LowerTable[s[i]]]

\* str.replace(a, b) for one-character a and b
replace(s, a, b) == [i \in 1..Len(s) |-> IF s[i] = a THEN b ELSE s[i]]

\* a in b, for two strs
IsSubstring(a, b) ==
    \E i \in 0..(Len(b) - Len(a)) : SubSeq(b, i + 1, i + Len(a)) = a

\* str(i) for the small integers of the model
str(i) == << <<"0", "1", "2", "3", "4", "5", "6", "7", "8", "9">>[i + 1] >>

\* key.split("_")[0], and len(key.split("_")) > 1
FirstPart(key) ==
    IF \E i \in 1..Len(key) : key[i] = "_"
    THEN SubSeq(key, 1, (CHOOSE i \in 1..Len(key) :
                            key[i] = "_" /\ \A j \in 1..(i - 1) : key[j] # "_") - 1)
    ELSE key
HasUnderscore(key) == \E i \in 1..Len(key) : key[i] = "_"

\* a value that is not a str (a number met while iterating a list)
NotAString == << "<number>" >>

\* ---- configuration and literals of the naming scheme (lines 50-82) -------------------
MQTT_PUB_TOPIC == <<"j", "l", "r", "2", "m", "q", "t", "t">>
HA_TOPIC_BASE == <<"h", "o", "m", "e", "a", "s", "s", "i", "s", "t", "a", "n", "t">>
HA_DEVICE_TAG_BASE == <<"R", "a", "n", "g", "e", " ", "R", "o", "v", "e", "r">>
JLR_SYSTEM_SUBTOPIC == <<"s", "y", "s", "t", "e", "m">>
JLR_SYSTEM_SENSOR_TYPE == <<"s", "y", "s", "t", "e", "m">>
JLR_DEPARTURE_TIMERS_SENSOR_TYPE == <<"t", "i", "m", "e", "r", "s">>
JLR_DEPARTURE_TIMERS_COUNT_MAX == 8

s_status == <<"s", "t", "a", "t", "u", "s">>
s_alerts == <<"a", "l", "e", "r", "t", "s">>
s_location == <<"l", "o", "c", "a", "t", "i", "o", "n">>
s_position == <<"p", "o", "s", "i", "t", "i", "o", "n">>
s_value == <<"v", "a", "l", "u", "e">>
s_timers == <<"t", "i", "m", "e", "r", "s">>
s_jlr == <<"j", "l", "r">>
s_sensor == <<"s", "e", "n", "s", "o", "r">>
s_config == <<"c", "o", "n", "f", "i", "g">>
s_vehicle == <<"v", "e", "h", "i", "c", "l", "e">>
s_state == <<"s", "t", "a", "t", "e">>
s_command_topic == <<"c", "o", "m", "m", "a", "n", "d", "_", "t", "o", "p", "i", "c">>
s_state_topic == <<"s", "t", "a", "t", "e", "_", "t", "o", "p", "i", "c">>
s_last_update_ts == <<"l", "a", "s", "t", "_", "u", "p", "d", "a", "t", "e", "_", "t", "s">>
s_send_command == <<"s", "e", "n", "d", "_", "c", "o", "m", "m", "a", "n", "d">>
s_send_command_response == <<"s", "e", "n", "d", "_", "c", "o", "m", "m", "a", "n", "d", "_", "r", "e", "s", "p", "o", "n", "s", "e">>
s_send_command_response_ts == <<"s", "e", "n", "d", "_", "c", "o", "m", "m", "a", "n", "d", "_", "r", "e", "s", "p", "o", "n", "s", "e", "_", "t", "s">>
s_send_command_service_id == <<"s", "e", "n", "d", "_", "c", "o", "m", "m", "a", "n", "d", "_", "s", "e", "r", "v", "i", "c", "e", "_", "i", "d">>
s_departure_timers == <<"d", "e", "p", "a", "r", "t", "u", "r", "e", "_", "t", "i", "m", "e", "r", "s">>
s_latitude == <<"l", "a", "t", "i", "t", "u", "d", "e">>
s_longitude == <<"l", "o", "n", "g", "i", "t", "u", "d", "e">>
s_latlong == <<"l", "a", "t", "l", "o", "n", "g">>
s_address == <<"a", "d", "d", "r", "e", "s", "s">>
s_formattedAddress == <<"f", "o", "r", "m", "a", "t", "t", "e", "d", "A", "d", "d", "r", "e", "s", "s">>
s_formatted_address == <<"f", "o", "r", "m", "a", "t", "t", "e", "d", "_", "a", "d", "d", "r", "e", "s", "s">>
s_system_state_updated == <<"s", "y", "s", "t", "e", "m", "_", "s", "t", "a", "t", "e", "_", "u", "p", "d", "a", "t", "e", "d">>
s_Data == <<" ", "D", "a", "t", "a">>
s_Model == <<"R", "e", "m", "o", "t", "e", " ", "A", "P", "I", " ", "S", "t", "a", "t", "u", "s", ":", " ">>

\* "a/b/c" and "a_b_c"
Slash(a, b) == a \o <<"/">> \o b
Under(a, b) == a \o <<"_">> \o b
Colon(a, b) == a \o <<":", " ">> \o b

\* ---- get_category_from_key (lines 197-203): << >> is None ---------------------------
get_category_from_key(key) == IF HasUnderscore(key) THEN FirstPart(key) ELSE << >>

\* ---- get_mqtt_base_topic (lines 355-359) ---------------------------------------------
get_mqtt_base_topicPerSession(idx) ==
    IF idx > -1 /\ jlr_connection.vehicle_count > 1
    THEN Slash(MQTT_PUB_TOPIC, Under(s_vehicle, str(idx)))
    ELSE MQTT_PUB_TOPIC

get_mqtt_base_topic(idx) ==
    IF idx > -1 /\ MULTI_VEHICLE_SUPPORT
    THEN Slash(MQTT_PUB_TOPIC, Under(s_vehicle, str(idx)))
    ELSE MQTT_PUB_TOPIC

\* ---- get_ha_disc_topic_and_config (lines 252-313) -------------------------------------
\* the (None, None) pair of line 313
NoDescriptor ==
    [none |-> TRUE, topic |-> << >>,
     config |-> [topic_key |-> << >>, state_topic |-> << >>, name |-> << >>,
                 unique_id |-> << >>, device_identifier |-> << >>,
                 device_name |-> << >>, model |-> << >>]]

\* value_item.lower() is reached with a value that has no such method (lines 266, 270)
DerivationRaises(value_item, category, sensor_type) ==
    value_item = NotAString /\ (category = << >> \/ sensor_type # s_status)

\* category.upper() if len(category) < 4 else category.title()
ShortUpper(s) == IF Len(s) < 4 THEN upper(s) ELSE title(s)

get_ha_disc_topic_and_config(idx, key, value_item, category, sensor_type, is_command) ==
    IF DerivationRaises(value_item, category, sensor_type) THEN NoDescriptor
    ELSE
    LET topic_base == get_mqtt_base_topic(idx)
        is_status  == sensor_type = s_status
        rest       == SubSeq(key, Len(category) + 2, Len(key))     \* key[len(category) + 1:]
        name0      == replace(ShortUpper(category) \o <<" ">> \o capitalize(sensor_type)
                                \o <<" ", "-", " ">> \o title(rest), "_", " ")
        state_topic ==
            IF category # << >>
            THEN LET t == Slash(Slash(Slash(topic_base, sensor_type), upper(category)),
                                lower(key))
                 IN  IF is_status THEN t ELSE Slash(t, lower(value_item))
            ELSE IF value_item # << >>
                 THEN Slash(Slash(topic_base, lower(key)), lower(value_item))
                 ELSE Slash(topic_base, lower(key))
        sensor_name ==
            IF category # << >>
            THEN IF is_status THEN name0 ELSE Colon(name0, value_item)
            ELSE IF value_item # << >>
                 THEN Colon(title(replace(sensor_type, "_", " ")) \o <<" ">>
                                \o replace(title(key), "_", " "), value_item)
                 ELSE Colon(replace(title(sensor_type), "_", " "), key)
        unique_id ==
            IF category # << >>
            THEN LET u == Under(Under(s_jlr, lower(sensor_type)), lower(key))
                 IN  IF is_status THEN u ELSE Under(u, lower(value_item))
            ELSE IF value_item # << >>
                 THEN Under(Under(s_jlr, replace(lower(key), " ", "_")), lower(value_item))
                 ELSE Under(s_jlr, replace(lower(key), " ", "_"))
        device_identifier ==
            IF category # << >> THEN Under(Under(s_jlr, category), sensor_type)
            ELSE Under(s_jlr, sensor_type)
        device_name ==
            IF category # << >>
            THEN Colon(HA_DEVICE_TAG_BASE,
                       ShortUpper(category)
                          \o (IF is_status THEN s_Data ELSE <<" ">> \o title(sensor_type)))
            ELSE Colon(HA_DEVICE_TAG_BASE,
                       (IF Len(sensor_type) < 4 THEN upper(sensor_type)
                        ELSE replace(title(sensor_type), "_", " ")) \o s_Data)
        config_parent_topic ==
            IF is_status
            THEN IF category # << >> THEN lower(rest) ELSE lower(key)
            ELSE IF value_item # << >> THEN value_item ELSE key
        device_topic ==
            IF is_status
            THEN IF category # << >> THEN Under(lower(sensor_type), lower(category))
                 ELSE lower(sensor_type)
            ELSE IF sensor_type \notin {JLR_SYSTEM_SENSOR_TYPE, s_timers}
                 THEN Under(lower(sensor_type), lower(key))
                 ELSE sensor_type
    IN  [none |-> FALSE,
         topic |-> Slash(Slash(Slash(Slash(HA_TOPIC_BASE, s_sensor),
                                     Under(topic_base, device_topic)),
                               config_parent_topic), s_config),
         config |-> [topic_key |-> IF is_command THEN s_command_topic ELSE s_state_topic,
                     state_topic |-> state_topic, name |-> sensor_name,
                     unique_id |-> unique_id, device_identifier |-> device_identifier,
                     device_name |-> device_name, model |-> s_Model \o key]]

\* ---- two calls of the namer with the same input, at two points of a run ------------
\* the inputs called with: a sensor of a vehicle, a command of the system, a failing derivation
NamerInputs ==
    { <<1, <<"T", "U", "_", "A">>, s_value, <<"T", "U">>, s_status, FALSE>>,
      <<-1, JLR_SYSTEM_SUBTOPIC, s_send_command, << >>, JLR_SYSTEM_SENSOR_TYPE, TRUE>>,
      <<1, <<"r", "o", "u", "t", "e">>, NotAString, << >>, s_location, FALSE>> }

Named(in) == get_ha_disc_topic_and_config(in[1], in[2], in[3], in[4], in[5], in[6])

\* ---- initial state: the process has started and the broker connection is up ----------
Init ==
    /\ MULTI_VEHICLE_SUPPORT \in BOOLEAN
    /\ HOMEASSISTANT_DISCOVERY \in BOOLEAN
    /\ MASTER_PIN \in BOOLEAN
    /\ vehicles \in 1..MaxVehicles
    /\ now = 0
    /\ jlr_connection = None
    /\ status_refresh_timer = 0
    /\ timers = [i \in TimerIds |-> DeadTimer]
    /\ ha_discovery_initalised = FALSE
    /\ last_command_service_id = ""
    /\ availability = "online"          \* mqtt_on_connect, line 129
    /\ mpc = "idle"
    /\ json_data = NullMsg
    /\ vehicle_idx = 0
    /\ pubs = << >>
    /\ calls = << >>
    /\ branch = ""
    /\ timer_op = "none"
    /\ DISCOVERY_SENSORS_LIST = << >>
    /\ tree_type = << >>
    /\ sensors_dict = << >>
    /\ tpc = "off"
    /\ sensor_i = 0
    /\ mqtt = << >>
    /\ departure_timers = << >>
    /\ first_named = [in \in NamerInputs |-> Named(in)]

\* ---- the message-handling thread -------------------------------------------------------
\* the tail of do_command once the result ret is known
FinishCommand(ret, delay, published, remote) ==
    LET f == Finish(json_data.command, vehicle_idx, ret, delay, jlr_connection,
                    status_refresh_timer, timers)
    IN  /\ FinishEnabled(json_data.command, ret, delay, status_refresh_timer, timers)
        /\ pubs' = pubs \o published \o f.published
        /\ calls' = calls \o remote
        /\ availability' = LastState(published \o f.published, availability)
        /\ last_command_service_id' = f.last_command_service_id
        /\ timers' = f.timers
        /\ status_refresh_timer' = f.status_refresh_timer
        /\ timer_op' = f.timer_op
        /\ mpc' = "done"

\* mqtt_on_message (lines 154-173) and do_command up to its first blocking call
MqttOnMessage(m, attempt) ==
    /\ mpc = "idle"
    /\ IF ~m.has_command
       THEN /\ pubs' = << <<"send_command_response_ts", "">> >>
            /\ branch' = "not_recognised"
            /\ json_data' = m
            /\ mpc' = "done"
            /\ UNCHANGED << jlr_connection, ha_discovery_initalised, availability,
                            vehicle_idx, calls, last_command_service_id, timers,
                            status_refresh_timer, timer_op >>
       ELSE
       LET b1 == do_command_begin(m, jlr_connection, ha_discovery_initalised,
                                  last_command_service_id, MULTI_VEHICLE_SUPPORT,
                                  MASTER_PIN, now, attempt, vehicles)
           rec == b1.next = "recurse"
           js == IF rec THEN ServiceStatusCommand(b1.vehicle_idx) ELSE m
           b2 == do_command_begin(js, b1.jlr_connection, b1.initalised,
                                  last_command_service_id, MULTI_VEHICLE_SUPPORT,
                                  MASTER_PIN, now, attempt, vehicles)
           b  == IF rec THEN [b2 EXCEPT !.published = b1.published \o @] ELSE b1
           f  == Finish(js.command, b.vehicle_idx, b.ret, b.delay, b.jlr_connection,
                        status_refresh_timer, timers)
           p  == << <<"send_command_ts", "ts">> >> \o b.published
                    \o (IF b.next = "finish" THEN f.published ELSE << >>)
       IN  /\ b.next = "finish" =>
                 FinishEnabled(js.command, b.ret, b.delay, status_refresh_timer, timers)
           /\ json_data' = js
           /\ jlr_connection' = b.jlr_connection
           /\ ha_discovery_initalised' = b.initalised
           /\ vehicle_idx' = b.vehicle_idx
           /\ branch' = b.branch
           /\ pubs' = p
           /\ availability' = LastState(p, availability)
           /\ calls' = IF b.next = "invoke" THEN << js.command >> ELSE << >>
           /\ mpc' = IF b.next \in {"finish", "return"} THEN "done" ELSE b.next
           /\ IF b.next = "finish"
              THEN /\ last_command_service_id' = f.last_command_service_id
                   /\ timers' = f.timers
                   /\ status_refresh_timer' = f.status_refresh_timer
                   /\ timer_op' = f.timer_op
              ELSE UNCHANGED << last_command_service_id, timers, status_refresh_timer,
                                timer_op >>
    /\ UNCHANGED << config, tree, first_named, now >>

\* line 597: the remote operation answers r, or raises
InvokeReturn(r, raised) ==
    /\ mpc = "invoke"
    /\ FinishCommand(InvocationResult(r, raised),
                     DEFAULT_COMMAND_STATUS_REFRESH_DELAY, << >>, << >>)
    /\ branch' = IF raised THEN "raised" ELSE branch
    /\ UNCHANGED << config, tree, first_named, now, jlr_connection, ha_discovery_initalised, json_data,
                    vehicle_idx >>

\* get_status with a key (lines 495-500)
MsgKeyFetch(ok) ==
    /\ mpc = "gs_key"
    /\ FinishCommand(IF ok THEN Completed ELSE GetStatusError, -1,
                     IF ok THEN << <<"status/value", "data">> >> ELSE << >>,
                     << "get_status" >>)
    /\ UNCHANGED << config, tree, first_named, now, jlr_connection, ha_discovery_initalised, json_data,
                    vehicle_idx, branch >>

\* get_status without a key, lines 456-479, called by do_command
MsgFetch(o) ==
    /\ mpc = "gs_fetch"
    /\ LET f == FullFetch(o, jlr_connection)
       IN  IF ~f.raised /\ DiscoveryDue(HOMEASSISTANT_DISCOVERY, ha_discovery_initalised)
           THEN /\ mpc' = "gs_disc"
                /\ pubs' = pubs \o f.published
                /\ calls' = calls \o f.remote
                /\ availability' = LastState(f.published, availability)
                /\ UNCHANGED << last_command_service_id, timers, status_refresh_timer,
                                timer_op >>
           ELSE FinishCommand(IF f.raised THEN GetStatusError ELSE Completed, -1,
                              f.published, f.remote)
    /\ UNCHANGED << config, tree, first_named, now, jlr_connection, ha_discovery_initalised, json_data,
                    vehicle_idx, branch >>

\* lines 480-492, called by do_command
MsgDiscovery ==
    /\ mpc = "gs_disc"
    /\ ha_discovery_initalised' = TRUE
    /\ FinishCommand(Completed, -1, << <<"homeassistant", "config">> >>, << >>)
    /\ UNCHANGED << config, tree, first_named, now, jlr_connection, json_data, vehicle_idx, branch >>

\* mqtt_on_message returns to the network loop
Return ==
    /\ mpc = "done"
    /\ mpc' = "idle"
    /\ json_data' = NullMsg
    /\ vehicle_idx' = 0
    /\ pubs' = << >>
    /\ calls' = << >>
    /\ branch' = ""
    /\ timer_op' = "none"
    /\ UNCHANGED << config, tree, first_named, now, jlr_connection, ha_discovery_initalised,
                    last_command_service_id, availability, timers, status_refresh_timer >>

\* ---- the timer threads: Timer(delay, get_status, [vehicle_idx]) ------------------------
msgLocals == << mpc, json_data, vehicle_idx, pubs, calls, branch, timer_op >>

\* the delay has passed: get_status(idx) starts, lines 449-455
Running(tms) == {i \in TimerIds : tms[i].state \in {"gs_fetch", "gs_disc"}}

Fire(i) ==
    /\ timers[i].state = "pending"
    /\ Cardinality(Running(timers)) < MaxRunning
    /\ timers' = [timers EXCEPT ![i] =
                     IF GetStatusBegin(jlr_connection, timers[i].idx) = "go"
                     THEN [@ EXCEPT !.state = "gs_fetch"] ELSE DeadTimer]
    /\ UNCHANGED << config, tree, first_named, now, jlr_connection, ha_discovery_initalised,
                    last_command_service_id, availability, status_refresh_timer,
                    msgLocals >>

TimerFetch(i, o) ==
    /\ timers[i].state = "gs_fetch"
    /\ LET f == FullFetch(o, jlr_connection)
       IN  /\ availability' = LastState(f.published, availability)
           /\ timers' = [timers EXCEPT ![i] =
                 IF ~f.raised /\ DiscoveryDue(HOMEASSISTANT_DISCOVERY, ha_discovery_initalised)
                 THEN [@ EXCEPT !.state = "gs_disc"] ELSE DeadTimer]
    /\ UNCHANGED << config, tree, first_named, now, jlr_connection, ha_discovery_initalised,
                    last_command_service_id, status_refresh_timer, msgLocals >>

TimerDiscovery(i) ==
    /\ timers[i].state = "gs_disc"
    /\ ha_discovery_initalised' = TRUE
    /\ timers' = [timers EXCEPT ![i] = DeadTimer]
    /\ UNCHANGED << config, tree, first_named, now, jlr_connection, last_command_service_id, availability,
                    status_refresh_timer, msgLocals >>

\* ---- time --------------------------------------------------------------------------------
Tick ==
    /\ now < MaxTime
    /\ now' = now + 1
    /\ UNCHANGED << config, tree, first_named, jlr_connection, ha_discovery_initalised,
                    last_command_service_id, availability, timers, status_refresh_timer,
                    msgLocals >>

Next ==
    \/ \E m \in Messages, attempt \in Attempts(now) :
          /\ (~m.has_command \/ jlr_connection.set) => attempt = [ok |-> FALSE, expiration |-> 0]
          /\ MqttOnMessage(m, attempt)
    \/ \E r \in RemoteResults, raised \in BOOLEAN : InvokeReturn(r, raised)
    \/ \E ok \in BOOLEAN : MsgKeyFetch(ok)
    \/ \E o \in FetchOutcomes : MsgFetch(o)
    \/ MsgDiscovery
    \/ Return
    \/ \E i \in TimerIds : Fire(i)
    \/ \E i \in TimerIds, o \in FetchOutcomes : TimerFetch(i, o)
    \/ \E i \in TimerIds : TimerDiscovery(i)
    \/ Tick

Spec == Init /\ [][Next]_vars

TypeOK ==
    /\ now \in 0..MaxTime
    /\ mpc \in {"idle", "invoke", "gs_key", "gs_fetch", "gs_disc", "done"}
    /\ status_refresh_timer \in 0..MaxTimers

\* ======================= the status tree: flattener and discovery run =======================
\* Full fetches over one status tree: publish_status_dict flattens it (publish_position
\* for the location tree), publish_departure_timers publishes the timers, then (line 479,
\* unless the flag is set) init_ha_discovery_for_dict derives and publishes the
\* descriptors and lines 486-491 publish the standard items and set the flag; the next
\* fetch is for the next vehicle.  vehicle_idx and MULTI_VEHICLE_SUPPORT are the ones of
\* the dispatcher.
programVars == << HOMEASSISTANT_DISCOVERY, MASTER_PIN, vehicles, now, jlr_connection,
                  status_refresh_timer, timers, last_command_service_id, availability,
                  mpc, json_data, pubs, calls, branch, timer_op, first_named >>

\* a sensor of the tree: its key and the value items met when iterating it ("key" left out)
Sensor(key, items) == [key |-> key, items |-> items]

StatusKeys == {<<"T", "U", "_", "A">>, <<"t", "u", "_", "a">>, <<"O", "D", "O">>}
StatusItems == {<<s_value>>, <<s_value, <<"a", "c", "t", "i", "v", "e">>>>, <<<<"a", "c", "t", "i", "v", "e">>, <<"A", "c", "t", "i", "v", "e">>>>}
StatusSensors == {Sensor(k, it) : k \in StatusKeys, it \in StatusItems}

\* v.get_position(): "position" holds the coordinates; another member may hold a list of
\* numbers, or nothing
LocationSensors ==
    {Sensor(s_position, <<s_latitude, s_longitude>>), Sensor(<<"r", "o", "u", "t", "e">>, <<NotAString>>), Sensor(<<"h", "e", "a", "d", "i", "n", "g">>, << >>)}

SeqsUpTo(S, n) == UNION {[1..k -> S] : k \in 1..n}

\* a dict holds each key once
DistinctKeys(t) == \A i, j \in 1..Len(t) : i # j => t[i].key # t[j].key

\* DISCOVERY_SENSORS_LIST: empty (the default), or naming sensors
SensorsLists == {<< >>, <<"t", "u", "_", "a", ",", "a", "l", "e", "r", "t", "s", "_", ",", "p", "o", "s", "i", "t", "i", "o", "n">>}

\* the payloads of the departure-timer topics: "", json.dumps(timer) and "[]"
DepartureTimer(index, time) == [timerIndex |-> index, departureTime |-> time]
NoTimer == DepartureTimer(-1, -1)
EmptyPayload == [kind |-> "empty", timer |-> NoTimer]
EmptyList == [kind |-> "list", timer |-> NoTimer]
json_dumps(timer) == [kind |-> "json", timer |-> timer]

\* v.get_departure_timers(): none, one timer, two timers out of order, one index twice
DepartureTimerLists ==
    {<< >>, <<DepartureTimer(0, 7)>>, <<DepartureTimer(9, 7), DepartureTimer(0, 8)>>,
     <<DepartureTimer(1, 7), DepartureTimer(1, 8)>>}

\* one publish call: a state message of the flattener or of publish_position, a message
\* on a departure-timer topic, or a discovery descriptor; vehicle is the vehicle of the
\* fetch that made the call
StateCall(topic, element, item) ==
    [call |-> "state", none |-> FALSE, topic |-> topic, element |-> element,
     item |-> item, unique_id |-> << >>, state_topic |-> << >>,
     payload |-> EmptyPayload, vehicle |-> vehicle_idx]
TimerCall(topic, payload) ==
    [call |-> "timer", none |-> FALSE, topic |-> topic, element |-> 0,
     item |-> << >>, unique_id |-> << >>, state_topic |-> << >>,
     payload |-> payload, vehicle |-> vehicle_idx]
ConfigCall(d, element, item) ==
    [call |-> "config", none |-> d.none, topic |-> d.topic, element |-> element,
     item |-> item, unique_id |-> d.config.unique_id,
     state_topic |-> d.config.state_topic, payload |-> EmptyPayload,
     vehicle |-> vehicle_idx]

\* update_state_on_mqtt (lines 176-179), as calls on the broker
StateCalls ==
    << StateCall(Slash(MQTT_PUB_TOPIC, s_state), 0, << >>),
       StateCall(Slash(MQTT_PUB_TOPIC, s_config), 0, << >>),
       StateCall(Slash(MQTT_PUB_TOPIC, s_system_state_updated), 0, << >>) >>

\* publish_status_dict, lines 375-384, for the element at position i
publish_element(idx, subtopic, element, i) ==
    LET topic_root == get_mqtt_base_topic(idx)
        category   == FirstPart(element.key)
        topic_base == Slash(Slash(Slash(topic_root, subtopic), category), lower(element.key))
    IN  IF element.items = <<s_value>>
        THEN << StateCall(topic_base, i, s_value) >>
        ELSE [j \in 1..Len(element.items) |->
                 StateCall(Slash(topic_base, element.items[j]), i, element.items[j])]

\* publish_position (lines 413-422): the position dict gets the member latlong
add_latlong(position) ==
    IF /\ \E j \in 1..Len(position) : position[j] = s_longitude
       /\ \E j \in 1..Len(position) : position[j] = s_latitude
       /\ \A j \in 1..Len(position) : position[j] # s_latlong
    THEN Append(position, s_latlong)
    ELSE position

\* the publish calls of publish_position for the position dict at place i of the tree
position_calls(idx, position, i) ==
    StateCalls
    \o [j \in 1..Len(position) |->
           StateCall(Slash(Slash(get_mqtt_base_topic(idx), s_position), position[j]),
                     i, position[j])]

\* get_and_publish_reverse_geocode (lines 426-445) when the answer holds formattedAddress
geocode_calls(idx) ==
    LET base == Slash(get_mqtt_base_topic(idx), s_position)
    IN  << StateCall(Slash(base, s_formatted_address), 0, s_formatted_address),
           StateCall(Slash(Slash(base, s_address), s_formattedAddress), 0,
                     s_formattedAddress) >>

\* publish_departure_timers (lines 390-409)
departure_timer_callsClearLast(idx, tms) ==
    LET topic_base == get_mqtt_base_topic(idx)
        slot(k)    == Slash(Slash(topic_base, s_departure_timers), str(k))
    IN  StateCalls
        \o (IF Len(tms) > 0
            THEN [j \in 1..Len(tms) |->
                    TimerCall(slot(tms[j].timerIndex), json_dumps(tms[j]))]
            ELSE << TimerCall(Slash(topic_base, s_departure_timers), EmptyList) >>)
        \o [k \in 1..DEPARTURE_TIMER_SLOTS |-> TimerCall(slot(k - 1), EmptyPayload)]

departure_timer_calls(idx, tms) ==
    LET topic_base == get_mqtt_base_topic(idx)
        slot(k)    == Slash(Slash(topic_base, s_departure_timers), str(k))
    IN  StateCalls
        \o [k \in 1..DEPARTURE_TIMER_SLOTS |-> TimerCall(slot(k - 1), EmptyPayload)]
        \o (IF Len(tms) > 0
            THEN [j \in 1..Len(tms) |->
                    TimerCall(slot(tms[j].timerIndex), json_dumps(tms[j]))]
            ELSE << TimerCall(Slash(topic_base, s_departure_timers), EmptyList) >>)

\* line 214
Kept(key, type, list) ==
    \/ Len(list) = 0
    \/ IsSubstring(lower(key), list)
    \/ type = s_location /\ IsSubstring(s_position, list)

\* lines 213-223 for one sensor: the publish calls made, and whether one of them raised
\* (the broker client refuses a None topic with ValueError, caught at line 228)
discover_sensor(idx, type, list, sensor, i) ==
    LET items == IF Kept(sensor.key, type, list) THEN sensor.items ELSE << >>
        d(j)  == get_ha_disc_topic_and_config(idx, sensor.key, items[j],
                                              get_category_from_key(sensor.key), type, FALSE)
        bad   == {j \in 1..Len(items) : d(j).none}
        last  == IF bad = {} THEN Len(items) ELSE CHOOSE j \in bad : \A k \in bad : j <= k
    IN  [calls |-> [j \in 1..last |-> ConfigCall(d(j), i, items[j])], raised |-> bad # {}]

\* init_ha_discovery_for_standard_items (lines 233-249)
SystemItems == << s_last_update_ts, s_send_command, s_send_command_response,
                  s_send_command_response_ts, s_send_command_service_id >>

init_ha_discovery_for_standard_items(idx) ==
    [j \in 1..Len(SystemItems) |->
        ConfigCall(get_ha_disc_topic_and_config(-1, JLR_SYSTEM_SUBTOPIC, SystemItems[j], << >>,
                                                JLR_SYSTEM_SENSOR_TYPE,
                                                SystemItems[j] = s_send_command),
                   0, SystemItems[j])]
    \o [j \in 1..JLR_DEPARTURE_TIMERS_COUNT_MAX |->
        ConfigCall(get_ha_disc_topic_and_config(idx, s_departure_timers, str(j - 1), << >>,
                                                JLR_DEPARTURE_TIMERS_SENSOR_TYPE, FALSE),
                   0, str(j - 1))]

InitTree ==
    /\ MULTI_VEHICLE_SUPPORT \in BOOLEAN
    /\ HOMEASSISTANT_DISCOVERY = TRUE
    /\ MASTER_PIN = FALSE
    /\ vehicles = MaxVehicles
    /\ now = 0
    /\ jlr_connection = Connection(MaxTime, MaxVehicles)
    /\ status_refresh_timer = 0
    /\ timers = [i \in TimerIds |-> DeadTimer]
    /\ ha_discovery_initalised = FALSE
    /\ last_command_service_id = ""
    /\ availability = "online"
    /\ mpc = "gs_fetch"
    /\ json_data = Msg("get_status", TRUE, 0, FALSE, "absent", TRUE, {})
    /\ vehicle_idx \in 0..(MaxVehicles - 1)
    /\ pubs = << >>
    /\ calls = << >>
    /\ branch = "get_status"
    /\ timer_op = "none"
    /\ DISCOVERY_SENSORS_LIST \in SensorsLists
    /\ tree_type \in {s_status}
                          \cup (IF IsSubstring(s_alerts \o <<"_">>, DISCOVERY_SENSORS_LIST)
                                THEN {s_alerts} ELSE {})
                          \cup (IF IsSubstring(s_position, DISCOVERY_SENSORS_LIST)
                                THEN {s_location} ELSE {})
    /\ sensors_dict \in IF tree_type = s_location
                        THEN {t \in SeqsUpTo(LocationSensors, MaxSensors) : DistinctKeys(t)}
                        ELSE SeqsUpTo(StatusSensors, MaxSensors)
    /\ tpc = IF tree_type = s_location THEN "position" ELSE "flatten"
    /\ sensor_i = 1
    /\ mqtt = << >>
    /\ departure_timers \in DepartureTimerLists
    /\ first_named = [in \in NamerInputs |-> Named(in)]

\* publish_status_dict: one element, and after the last one lines 386-387
FlattenElement ==
    /\ tpc = "flatten"
    /\ LET last == sensor_i = Len(sensors_dict)
       IN  /\ mqtt' = mqtt \o publish_element(vehicle_idx, tree_type,
                                              sensors_dict[sensor_i], sensor_i)
                           \o (IF last
                               THEN << StateCall(Slash(get_mqtt_base_topic(vehicle_idx),
                                                       s_last_update_ts), 0,
                                                 s_last_update_ts) >>
                                    \o StateCalls
                               ELSE << >>)
           /\ tpc' = IF last THEN "timers" ELSE "flatten"
           /\ sensor_i' = IF last THEN 1 ELSE sensor_i + 1
    /\ UNCHANGED << programVars, MULTI_VEHICLE_SUPPORT, vehicle_idx, ha_discovery_initalised,
                    DISCOVERY_SENSORS_LIST, tree_type, sensors_dict, departure_timers >>

\* get_status, lines 466-469, for the location tree: publish_position, and the reverse
\* geocode lookup, which answers with or without a formatted address
PublishPosition ==
    /\ tpc = "position"
    /\ LET P == {i \in 1..Len(sensors_dict) : sensors_dict[i].key = s_position}
       IN  IF P = {}
           THEN /\ mqtt' = mqtt
                /\ sensors_dict' = sensors_dict
           ELSE LET p        == CHOOSE i \in P : TRUE
                    position == add_latlong(sensors_dict[p].items)
                IN  /\ \E formatted \in BOOLEAN :
                         mqtt' = mqtt \o position_calls(vehicle_idx, position, p)
                                      \o (IF formatted THEN geocode_calls(vehicle_idx)
                                          ELSE << >>)
                    /\ sensors_dict' = [sensors_dict EXCEPT ![p].items = position]
    /\ tpc' = "timers"
    /\ UNCHANGED << programVars, MULTI_VEHICLE_SUPPORT, vehicle_idx, ha_discovery_initalised,
                    DISCOVERY_SENSORS_LIST, tree_type, sensor_i, departure_timers >>

\* get_status, lines 472-479: the departure timers, then discovery unless it was done
PublishDepartureTimers ==
    /\ tpc = "timers"
    /\ mqtt' = mqtt \o departure_timer_calls(vehicle_idx, departure_timers)
    /\ tpc' = IF DiscoveryDue(HOMEASSISTANT_DISCOVERY, ha_discovery_initalised)
              THEN "discover" ELSE "done"
    /\ sensor_i' = 1
    /\ UNCHANGED << programVars, MULTI_VEHICLE_SUPPORT, vehicle_idx, ha_discovery_initalised,
                    DISCOVERY_SENSORS_LIST, tree_type, sensors_dict, departure_timers >>

\* init_ha_discovery_for_dict: one sensor of the loop of line 208
DiscoverSensor ==
    /\ tpc = "discover"
    /\ LET r    == discover_sensor(vehicle_idx, tree_type, DISCOVERY_SENSORS_LIST,
                                   sensors_dict[sensor_i], sensor_i)
           last == r.raised \/ sensor_i = Len(sensors_dict)
       IN  /\ mqtt' = mqtt \o r.calls
           /\ tpc' = IF last THEN "standard" ELSE "discover"
           /\ sensor_i' = IF last THEN sensor_i ELSE sensor_i + 1
    /\ UNCHANGED << programVars, MULTI_VEHICLE_SUPPORT, vehicle_idx, ha_discovery_initalised,
                    DISCOVERY_SENSORS_LIST, tree_type, sensors_dict, departure_timers >>

\* get_status, lines 486-491
StandardItems ==
    /\ tpc = "standard"
    /\ mqtt' = mqtt
                \o (IF IsSubstring(s_position, DISCOVERY_SENSORS_LIST)
                    THEN << ConfigCall(get_ha_disc_topic_and_config(
                                          vehicle_idx, s_position, s_formatted_address, << >>,
                                          s_location, FALSE), 0, s_formatted_address) >>
                    ELSE << >>)
                \o init_ha_discovery_for_standard_items(vehicle_idx)
    /\ ha_discovery_initalised' = TRUE
    /\ tpc' = "done"
    /\ UNCHANGED << programVars, MULTI_VEHICLE_SUPPORT, vehicle_idx,
                    DISCOVERY_SENSORS_LIST, tree_type, sensors_dict, sensor_i,
                    departure_timers >>

\* the next full fetch, for the next vehicle of the Session: get_status from line 456 on
NextVehicle ==
    /\ tpc = "done"
    /\ vehicle_idx + 1 < jlr_connection.vehicle_count
    /\ vehicle_idx' = vehicle_idx + 1
    /\ tpc' = IF tree_type = s_location THEN "position" ELSE "flatten"
    /\ sensor_i' = 1
    /\ UNCHANGED << programVars, MULTI_VEHICLE_SUPPORT, ha_discovery_initalised,
                    DISCOVERY_SENSORS_LIST, tree_type, sensors_dict, mqtt,
                    departure_timers >>

NextTree ==
    \/ FlattenElement
    \/ PublishPosition
    \/ PublishDepartureTimers
    \/ DiscoverSensor
    \/ StandardItems
    \/ NextVehicle

SpecTree == InitTree /\ [][NextTree]_vars

\* ======================= properties ==========================================================
Topics(published) == {published[i][1] : i \in 1..Len(published)}

Responses(published) ==
    SelectSeq(published, LAMBDA e : e[1] = "send_command_response")

\* the payload of the last publication on send_command_response
LastResponse(published) == Responses(published)[Len(Responses(published))][2]

SystemTopics == {"send_command_ts", "send_command_response", "send_command_response_ts",
                 "send_command_service_id", "state", "config", "system_state_updated"}

Pending(tms) == {i \in TimerIds : tms[i].state = "pending"}

InHandler == mpc \in {"invoke", "gs_key", "gs_fetch", "gs_disc"}

\* this step enters do_command / this step ends do_command
Begins == mpc = "idle" /\ mpc' # "idle" /\ json_data'.has_command
Completes == mpc # "done" /\ mpc' = "done" /\ json_data'.has_command

\* C1: whenever do_command cannot obtain a Session (the constructor fails, or the
\* cached Session is found expired), it publishes after the placeholder an error result
\* saying that the connection to the remote API is unavailable, and invokes no remote
\* operation.
C1_UnavailablePublished ==
    (mpc = "done" /\ json_data.has_command /\ ~jlr_connection.set)
        => /\ Len(Responses(pubs)) >= 2
           /\ LastResponse(pubs) = StConnUnavailable
           /\ calls = << >>

\* C2: a status fetch run by a timer never overlaps a command being processed by the
\* message handler: one of the two runs to completion before the other begins.
C2_Serialized == ~(InHandler /\ Running(timers) # {})

\* C3: a get_jlr_connection call that finds the cached Session expired constructs a new
\* Session in that same call and returns it (unless the constructor fails); the cached
\* Session is returned unchanged only while its expiration time is in the future.
C3_ExpiredIsRebuilt ==
    [][(Begins /\ jlr_connection.set)
         => IF now > jlr_connection.expiration
            THEN (jlr_connection'.set /\ jlr_connection'.expiration >= now)
                 \/ branch' = "connect_failed"
            ELSE jlr_connection' = jlr_connection]_vars

\* do_command ended on refresh_last_command_status without a cached service id (with
\* one, json_data is the synthetic get_service_status command of line 567)
RefreshedWithoutId ==
    /\ mpc = "done" /\ json_data.command = "refresh_last_command_status"
    /\ branch = "refresh_last_command_status"

\* C4 as claimed: refresh_last_command_status with no cached service id is a no-op:
\* after the placeholder there is no further publication, no remote operation and no
\* timer.
C4_RefreshNoop ==
    RefreshedWithoutId
        => /\ Len(Responses(pubs)) = 1
           /\ calls = << >>
           /\ timer_op = "none"

\* C4 as amended: refresh_last_command_status with no cached service id invokes no
\* remote operation and arms no timer, but after the placeholder it publishes the result
\* None once (response, timestamp, empty service id); the cached id stays cleared.
C4_RefreshPublishesNone ==
    RefreshedWithoutId
        => /\ Len(Responses(pubs)) = 2
           /\ LastResponse(pubs) = "None"
           /\ pubs[Len(pubs) - 3] = <<"send_command_service_id", "">>
           /\ Topics(pubs) \subseteq SystemTopics
           /\ calls = << >>
           /\ timer_op = "none"
           /\ last_command_service_id = ""

C4_Witness == RefreshedWithoutId /\ LastResponse(pubs) = "None" /\ Pending(timers) # {}

InvalidIndex(json, conn) ==
    ~json.has_index \/ json.vehicle_index < 0 \/ json.vehicle_index >= conn.vehicle_count

\* C5: with multi-vehicle support and a Session of more than one vehicle, a command whose
\* vehicle_index is absent or outside 0 <= index < vehicle_count publishes an error result
\* and stops: no remote operation, no internal handler, no timer armed or cancelled, and
\* the cached last service id unchanged.
C5_InvalidIndexAborts ==
    [][(Begins /\ MULTI_VEHICLE_SUPPORT /\ jlr_connection'.set
          /\ jlr_connection'.vehicle_count > 1 /\ InvalidIndex(json_data', jlr_connection'))
         => /\ mpc' = "done"
            /\ LastResponse(pubs') = StInvalidIndex
            /\ Topics(pubs') \subseteq SystemTopics
            /\ calls' = << >>
            /\ timers' = timers /\ status_refresh_timer' = status_refresh_timer
            /\ timer_op' = "none"
            /\ last_command_service_id' = last_command_service_id
            /\ ha_discovery_initalised' = ha_discovery_initalised]_vars

C5_Witness ==
    /\ mpc = "done" /\ MULTI_VEHICLE_SUPPORT /\ jlr_connection.set
    /\ jlr_connection.vehicle_count > 1
    /\ json_data.command = "honk_blink" /\ json_data.has_index /\ json_data.vehicle_index = -1
    /\ LastResponse(pubs) = StInvalidIndex
    /\ Pending(timers) # {} /\ last_command_service_id = "sid"

\* the keyword arguments after the master PIN was added (lines 578-579)
GivenParams(json, pin) ==
    IF "pin" \in func_params_of(json.command) /\ pin THEN json.kwargs \cup {"pin"}
    ELSE json.kwargs

\* the step reaches the dynamic branch of do_command with a resolvable operation
BeginsDynamic ==
    /\ Begins /\ branch' = "dynamic"
    /\ json_data'.command \in RemoteOperations /\ json_data'.kwargs_is_dict

\* C6: an operation that declares parameters is invoked only if the supplied argument
\* names (after the PIN injection) are exactly the declared ones; with different names,
\* or with none, it is not invoked and an error result carrying the message is published.
C6_ExactParameters ==
    [][(BeginsDynamic /\ func_params_of(json_data'.command) # {})
         => LET given == GivenParams(json_data', MASTER_PIN)
                decl  == func_params_of(json_data'.command)
            IN  /\ (mpc' = "invoke") <=> (given = decl)
                /\ (given # decl /\ given # {})
                     => /\ mpc' = "done" /\ calls' = << >>
                        /\ LastResponse(pubs') = StParamsMismatch
                /\ (given = {})
                     => /\ mpc' = "done" /\ calls' = << >>
                        /\ LastResponse(pubs') = StKwargsMissing]_vars

C6_Witness ==
    /\ mpc = "done" /\ json_data.command = "remote_engine_start"
    /\ json_data.kwargs = {"target_value"} /\ ~MASTER_PIN
    /\ LastResponse(pubs) = StParamsMismatch /\ calls = << >>

\* C7 as claimed: for an operation that declares no parameters the supplied keyword
\* arguments are ignored: the operation is invoked whatever they are.
C7_ExtraArgsIgnored ==
    [][(BeginsDynamic /\ func_params_of(json_data'.command) = {}) => mpc' = "invoke"]_vars

\* C7 as amended: for an operation that declares no parameters the validation passes
\* and the supplied keyword arguments are handed to the call: the operation runs only
\* when none was supplied, otherwise the call fails and an error result is published.
C7_ExtraArgsPassedOn ==
    [][(BeginsDynamic /\ func_params_of(json_data'.command) = {})
         => IF json_data'.kwargs = {}
            THEN mpc' = "invoke" /\ calls' = << json_data'.command >>
            ELSE /\ mpc' = "done" /\ calls' = << >>
                 /\ LastResponse(pubs') = StRaised /\ timer_op' = "none"]_vars

C7_Witness ==
    /\ mpc = "done" /\ json_data.command = "honk_blink" /\ json_data.kwargs = {"pin"}
    /\ branch = "dynamic" /\ LastResponse(pubs) = StRaised /\ calls = << >>

\* C8: at most one refresh timer is pending at any moment; arming cancels the timer that
\* was pending, so after an arming the only pending timer is the one just armed, and
\* only a pending timer ever fires.
C8_OnePendingTimer ==
    /\ [](Cardinality(Pending(timers)) <= 1)
    /\ [][/\ (Completes /\ timer_op' # "none")
               => /\ Pending(timers') = {status_refresh_timer'}
                  /\ timers'[status_refresh_timer'].idx = vehicle_idx'
                  /\ (Pending(timers) # {} => timer_op' = "rearmed")
          /\ \A i \in TimerIds :
               (timers[i].state # "gs_fetch" /\ timers'[i].state = "gs_fetch")
                   => i \in Pending(timers)]_vars

C8_Witness ==
    /\ mpc = "done" /\ timer_op = "rearmed" /\ vehicle_idx = 1
    /\ Pending(timers) = {status_refresh_timer}
    /\ timers[status_refresh_timer].idx = 1

\* the command came to a result and the result has a status that is no error
NonErrorResult(published) ==
    /\ Len(Responses(published)) >= 2
    /\ LastResponse(published) \notin {"None", "{}"}
    /\ ~ContainsError(LastResponse(published))

\* C9: do_command arms a refresh timer, for the command's effective vehicle index,
\* exactly when the command is a dynamic remote operation other than get_service_status
\* whose result has a non-error status; the internal commands never arm one.
C9_ArmsExactlyAfterSuccess ==
    [][Completes
         => /\ (timer_op' # "none")
                 <=> (/\ json_data'.command \notin InternalCommands
                      /\ json_data'.command # "get_service_status"
                      /\ NonErrorResult(pubs'))
            /\ (timer_op' # "none")
                 => timers'[status_refresh_timer'] = [state |-> "pending", idx |-> vehicle_idx']
            /\ (timer_op' = "none")
                 => timers' = timers /\ status_refresh_timer' = status_refresh_timer]_vars

C9_Witness ==
    /\ mpc = "done" /\ json_data.command = "honk_blink" /\ timer_op = "armed"
    /\ vehicle_idx = 1 /\ LastResponse(pubs) = "Started"
    /\ timers[status_refresh_timer] = [state |-> "pending", idx |-> 1]

\* a thread passes line 479 into the discovery block / leaves the block (line 491)
EntersDiscovery ==
    \/ mpc # "gs_disc" /\ mpc' = "gs_disc"
    \/ \E i \in TimerIds : timers[i].state # "gs_disc" /\ timers'[i].state = "gs_disc"
LeavesDiscovery ==
    \/ mpc = "gs_disc" /\ mpc' # "gs_disc"
    \/ \E i \in TimerIds : timers[i].state = "gs_disc" /\ timers'[i].state # "gs_disc"

\* C10: a full fetch publishes discovery descriptors only if discovery is enabled and it
\* finds the flag unset; that fetch then sets the flag; the flag stays set, and no fetch
\* that finds it set publishes descriptors, until init_ha_discovery resets it.
C10_DiscoveryOnce ==
    [][/\ EntersDiscovery => (HOMEASSISTANT_DISCOVERY /\ ~ha_discovery_initalised)
       /\ ("homeassistant" \in Topics(pubs') /\ "homeassistant" \notin Topics(pubs))
            => mpc = "gs_disc"
       /\ LeavesDiscovery => ha_discovery_initalised'
       /\ (ha_discovery_initalised /\ ~ha_discovery_initalised')
            => (Begins /\ branch' = "init_ha_discovery")]_vars

C10_Witness ==
    /\ mpc = "done" /\ json_data.command = "get_status" /\ ~json_data.has_key
    /\ HOMEASSISTANT_DISCOVERY /\ ha_discovery_initalised
    /\ LastResponse(pubs) = "Completed"
    /\ "departure_timers" \in Topics(pubs) /\ "homeassistant" \notin Topics(pubs)

\* the threads that passed line 479 and have not reached line 491 yet
InDiscovery ==
    (IF mpc = "gs_disc" THEN {0} ELSE {}) \cup {i \in TimerIds : timers[i].state = "gs_disc"}

\* C11: the discovery-initialized flag is protected against concurrent access: when a
\* timer's fetch and a command's fetch interleave while the flag is unset, only one of
\* them publishes the discovery descriptors (never two threads inside the block).
C11_DiscoveryExclusive == Cardinality(InDiscovery) <= 1

\* C12: a failure raised by the invoked remote operation, or by resolving the command
\* name, never leaves do_command: the handler ends with an error result published,
\* arms and cancels no timer, and every later command can still be processed.
C12_FailureContained ==
    /\ [][/\ (mpc = "invoke" /\ mpc' # "invoke") => (mpc' = "done" /\ Completes)
          /\ (\/ Completes /\ branch' = "raised"
              \/ Begins /\ branch' = "dynamic" /\ json_data'.command \notin RemoteOperations)
               => /\ mpc' = "done"
                  /\ Len(Responses(pubs')) >= 2
                  /\ LastResponse(pubs') = StRaised
                  /\ ContainsError(LastResponse(pubs'))
                  /\ timer_op' = "none"
                  /\ timers' = timers /\ status_refresh_timer' = status_refresh_timer]_vars
    /\ [](mpc = "done" => ENABLED Return)
    /\ [](mpc = "idle" =>
            ENABLED (\E m \in IndexProbes, attempt \in Attempts(now) : MqttOnMessage(m, attempt)))

C12_Witness ==
    /\ mpc = "done" /\ branch = "raised" /\ json_data.command = "lock"
    /\ calls = << "lock" >> /\ LastResponse(pubs) = StRaised
    /\ Pending(timers) # {} /\ timer_op = "none"

\* the payload of the last publication on send_command_service_id
LastServiceId(published) ==
    LET S == {i \in 1..Len(published) : published[i][1] = "send_command_service_id"}
    IN  published[CHOOSE i \in S : \A j \in S : j <= i][2]

\* do_command reached line 603 with its result
PublishesResult ==
    /\ Completes /\ Len(Responses(pubs')) >= 2
    /\ branch' \notin {"invalid_index", "not_recognised"}

\* C13: after every command that reaches the publication of its result, the cached last
\* service id is the customerServiceId of that result if it has a truthy one, and is
\* cleared otherwise; a successful internal command clears it.
C13_ServiceIdFollowsResult ==
    [][PublishesResult
         => /\ last_command_service_id' = LastServiceId(pubs')
            /\ (LastResponse(pubs') = "Started") => last_command_service_id' = "sid"
            /\ (LastResponse(pubs') # "Started") => last_command_service_id' = ""
            /\ (json_data'.command \in InternalCommands) => last_command_service_id' = ""]_vars

C13_Witness ==
    /\ mpc = "done" /\ json_data.command = "get_status" /\ LastResponse(pubs) = "Completed"
    /\ last_command_service_id = "" /\ Pending(timers) # {}

\* what do_command publishes after its placeholder (send_command_ts comes first)
AfterPlaceholder(published) ==
    SubSeq(published, 2 + Len(publish_command_response(Placeholder, None)), Len(published))

Published(published) == {published[i] : i \in 1..Len(published)}

\* C14: a get_jlr_connection call in which the construction fails leaves the cached
\* Session unset and has published the availability offline; a call in which the
\* construction succeeds has published the availability online.
C14_AttemptPublishesAvailability ==
    [][(Begins /\ ~jlr_connection.set)
         => IF jlr_connection'.set
            THEN <<"state", "online">> \in Published(AfterPlaceholder(pubs'))
            ELSE <<"state", "offline">> \in Published(AfterPlaceholder(pubs'))]_vars

\* C15: an inbound message without a command field is not dispatched (no Session is
\* acquired, no operation invoked) and an error response is published on the system
\* response topic for it.
C15_NoCommandReported ==
    (mpc = "done" /\ ~json_data.has_command)
        => /\ calls = << >>
           /\ Responses(pubs) # << >>
           /\ ContainsError(LastResponse(pubs))

\* C20: in a full fetch a failed reverse-geocode lookup (raising, or answering without
\* a formatted address) is not fatal: the departure timers are still fetched and
\* published and the fetch returns Completed.
C20_GeocodeNotFatal ==
    (/\ mpc = "done" /\ json_data.has_command
     /\ \E i \in 1..Len(calls) : calls[i] = "reverse_geocode"
     /\ "position/formatted_address" \notin Topics(pubs))
        => /\ \E i \in 1..Len(calls) : calls[i] = "get_departure_timers"
           /\ "departure_timers" \in Topics(pubs)
           /\ LastResponse(pubs) = "Completed"

\* the descriptors announced for the sensors of the tree (not the standard items)
TreeDescriptors ==
    {i \in 1..Len(mqtt) : mqtt[i].call = "config" /\ ~mqtt[i].none /\ mqtt[i].element > 0}

\* C16: the unique identifier is injective on the sensors of one status tree: two distinct
\* (sensor_type, key, value_item) tuples never get the same unique_id, in particular two
\* value items of one status key, and two keys that differ only in letter case.
C16_UniqueIdInjective ==
    \A i, j \in TreeDescriptors :
        (<<sensors_dict[mqtt[i].element].key, mqtt[i].item>>
            # <<sensors_dict[mqtt[j].element].key, mqtt[j].item>>)
        => mqtt[i].unique_id # mqtt[j].unique_id

\* C17: topic naming is deterministic: for every input tuple, the (topic, descriptor)
\* pair the namer returns at any point of any run, whatever commands were processed
\* before, is the pair it returned for that input when the process started.
C17_NamingDeterministic ==
    \A in \in NamerInputs : Named(in) = first_named[in]

C17_Witness ==
    /\ mpc = "done" /\ branch = "get_status" /\ jlr_connection.set
    /\ jlr_connection.vehicle_count = 1 /\ MULTI_VEHICLE_SUPPORT /\ ha_discovery_initalised
    /\ \E in \in NamerInputs : Named(in).none
    /\ \E in \in NamerInputs :
          ~Named(in).none /\ IsSubstring(Under(s_vehicle, str(1)), Named(in).topic)

\* the topic base the flattener is to use for a key: root/subtopic/category/lower-cased
\* key, the category being the part before the first underscore, absent without one
ClaimedTopicBase(idx, subtopic, key) ==
    LET root == Slash(get_mqtt_base_topic(idx), subtopic)
    IN  Slash(IF HasUnderscore(key) THEN Slash(root, FirstPart(key)) ELSE root, lower(key))

\* the topics of the state messages published for the element at position i
TopicsOfElement(i) ==
    LET m == SelectSeq(mqtt, LAMBDA c : c.call = "state" /\ c.element = i
                                       /\ c.vehicle = vehicle_idx)
    IN  [j \in 1..Len(m) |-> m[j].topic]

\* C18: for each element the flattener publishes, under root/subtopic/category/
\* lower-cased key, exactly one message when the element has exactly the key and a value
\* field, otherwise one message per non-key property at topic_base/property; the
\* category segment is absent when the key has no underscore.
C18_FlattenerTopics ==
    \A i \in 1..Len(sensors_dict) :
        (tree_type # s_location /\ (tpc # "flatten" \/ i < sensor_i))
        => LET e    == sensors_dict[i]
               base == ClaimedTopicBase(vehicle_idx, tree_type, e.key)
           IN  TopicsOfElement(i) =
                  IF e.items = <<s_value>> THEN << base >>
                  ELSE [j \in 1..Len(e.items) |-> Slash(base, e.items[j])]

\* C19: when a derivation yields (None, None) the caller skips that publication: no
\* publish call is made with a None topic, and the other descriptors of the run (later
\* value items, later sensors, the standard items) are still published.
C19_NoneTopicSkipped ==
    /\ \A i \in 1..Len(mqtt) : ~mqtt[i].none
    /\ tpc = "done" =>
          /\ \A i \in 1..Len(sensors_dict) :
                Kept(sensors_dict[i].key, tree_type, DISCOVERY_SENSORS_LIST)
                => \A j \in 1..Len(sensors_dict[i].items) :
                      sensors_dict[i].items[j] # NotAString
                      => \E c \in 1..Len(mqtt) :
                            /\ mqtt[c].call = "config" /\ mqtt[c].element = i
                            /\ mqtt[c].item = sensors_dict[i].items[j]
          /\ \A k \in 1..Len(SystemItems) :
                \E c \in 1..Len(mqtt) : mqtt[c].call = "config" /\ mqtt[c].item = SystemItems[k]

\* C23: no remote operation is invoked on a Session whose expiration time has passed,
\* neither by a command dispatched through do_command nor by the status fetch of a
\* refresh timer that fires after the cached Session expired.
C23_NoUseAfterExpiry ==
    [][/\ (Begins /\ mpc' \in {"invoke", "gs_key", "gs_fetch"})
            => (jlr_connection'.set /\ now <= jlr_connection'.expiration)
       /\ \A i \in TimerIds :
            (timers[i].state = "pending" /\ timers'[i].state = "gs_fetch")
            => (jlr_connection.set /\ now <= jlr_connection.expiration)]_vars

C26_PendingTimerUntouched ==
    [][/\ (mpc' # mpc /\ timer_op' = "none")
            => (timers' = timers /\ status_refresh_timer' = status_refresh_timer)
       /\ \A i \in TimerIds :
            (timers[i].state = "pending" /\ timers'[i].state = "gs_fetch")
            => timers'[i].idx = timers[i].idx]_vars

C26_Witness ==
    /\ mpc = "done" /\ json_data.command = "get_service_status" /\ timer_op = "none"
    /\ LastResponse(pubs) = "Started"
    /\ Pending(timers) = {status_refresh_timer} /\ timers[status_refresh_timer].idx = 1

\* the descriptor init_ha_discovery_for_standard_items announces for last_update_ts
LastUpdateDescriptor ==
    get_ha_disc_topic_and_config(-1, JLR_SYSTEM_SUBTOPIC, s_last_update_ts, << >>,
                                 JLR_SYSTEM_SENSOR_TYPE, FALSE)

\* C21: after the elements of a status sequence the flattener publishes the last-update
\* timestamp to the fixed system subtopic: the topic of that message is the state topic
\* the standard descriptor for last_update_ts announces.
C21_TimestampOnSystemTopic ==
    \A i \in 1..Len(mqtt) :
        (mqtt[i].call = "state" /\ mqtt[i].item = s_last_update_ts)
        => mqtt[i].topic = LastUpdateDescriptor.config.state_topic

\* the calls the current fetch made on the departure-timer topics, in order
TimerCalls == SelectSeq(mqtt, LAMBDA c : c.call = "timer" /\ c.vehicle = vehicle_idx)

SlotTopic(i) ==
    Slash(Slash(get_mqtt_base_topic(vehicle_idx), s_departure_timers), str(i))

\* the payload a slot holds: the one published last on its topic
Held(i) ==
    LET on == SelectSeq(TimerCalls, LAMBDA c : c.topic = SlotTopic(i))
    IN  on[Len(on)].payload

TimersPublished == tpc \in {"discover", "standard", "done"}

\* C22: publish_departure_timers first publishes an empty payload to each of the slots
\* 0..9 and only then each timer, serialized, to topic_base/departure_timers/{timerIndex}:
\* afterwards slot i holds the timer with timerIndex i if there is one and is empty
\* otherwise; without timers the empty-list marker goes to the parent topic and no slot
\* receives a timer.
C22_SlotsClearedThenFilled ==
    TimersPublished =>
        LET T == TimerCalls
            n == Len(departure_timers)
        IN  /\ Len(T) >= DEPARTURE_TIMER_SLOTS
            /\ \A k \in 1..DEPARTURE_TIMER_SLOTS :
                  T[k].topic = SlotTopic(k - 1) /\ T[k].payload = EmptyPayload
            /\ n > 0 =>
                  /\ Len(T) = DEPARTURE_TIMER_SLOTS + n
                  /\ \A j \in 1..n :
                        /\ T[DEPARTURE_TIMER_SLOTS + j].topic =
                              SlotTopic(departure_timers[j].timerIndex)
                        /\ T[DEPARTURE_TIMER_SLOTS + j].payload =
                              json_dumps(departure_timers[j])
                  /\ \A i \in 0..(DEPARTURE_TIMER_SLOTS - 1) :
                        LET of == {j \in 1..n : departure_timers[j].timerIndex = i}
                        IN  IF of = {} THEN Held(i) = EmptyPayload
                            ELSE \E j \in of : Held(i) = json_dumps(departure_timers[j])
            /\ n = 0 =>
                  /\ Len(T) = DEPARTURE_TIMER_SLOTS + 1
                  /\ T[Len(T)].topic =
                        Slash(get_mqtt_base_topic(vehicle_idx), s_departure_timers)
                  /\ T[Len(T)].payload = EmptyList
                  /\ \A i \in 0..(DEPARTURE_TIMER_SLOTS - 1) : Held(i) = EmptyPayload

C22_Witness ==
    /\ tpc = "done" /\ MULTI_VEHICLE_SUPPORT /\ vehicle_idx = 1
    /\ Len(departure_timers) = 2
    /\ departure_timers[1].timerIndex = 9 /\ departure_timers[2].timerIndex = 0
    /\ Held(9) = json_dumps(departure_timers[1])
    /\ Held(0) = json_dumps(departure_timers[2])
    /\ Held(1) = EmptyPayload

\* C24: every state topic announced in a descriptor is a topic the publishers write to
\* for the same sensor: for each status or alert element and each of its properties, and
\* for each position field, the descriptor's state_topic equals, character for character,
\* the topic publish_status_dict or publish_position used for that value.
C24_StateTopicIsPublished ==
    \A c \in TreeDescriptors :
        \E p \in 1..Len(mqtt) :
            /\ mqtt[p].call = "state" /\ mqtt[p].vehicle = mqtt[c].vehicle
            /\ mqtt[p].element = mqtt[c].element /\ mqtt[p].item = mqtt[c].item
            /\ mqtt[p].topic = mqtt[c].state_topic

\* a full fetch has completed for vehicle v; its descriptors have been published
Fetched(v) ==
    \E i \in 1..Len(mqtt) :
        /\ mqtt[i].call = "timer" /\ mqtt[i].vehicle = v
        /\ (mqtt[i].vehicle # vehicle_idx \/ tpc = "done")

Announced(v) ==
    \E i \in 1..Len(mqtt) :
        /\ mqtt[i].call = "config"
        /\ mqtt[i].topic =
              get_ha_disc_topic_and_config(v, s_departure_timers, str(0), << >>,
                                           JLR_DEPARTURE_TIMERS_SENSOR_TYPE, FALSE).topic

\* C27: with multi-vehicle support and several vehicles every vehicle index receives its
\* descriptors: once full fetches have completed for two vehicle indices with discovery
\* enabled, descriptors have been published under both vehicles' base topics.
C27_EveryVehicleAnnounced ==
    (/\ MULTI_VEHICLE_SUPPORT /\ HOMEASSISTANT_DISCOVERY
     /\ \A v \in 0..(MaxVehicles - 1) : Fetched(v))
        => \A v \in 0..(MaxVehicles - 1) : Announced(v)
====
